---- MODULE Spec2Model ----
(***************************************************************************)
(* Structured generation over a chat-completion service (ORouter).         *)
(*                                                                         *)
(* A text is a sequence of tokens: the fence marker, the newline, the      *)
(* blank, and words (runs of characters holding no whitespace and no       *)
(* backtick).  A JSON document written without inner whitespace is one     *)
(* word.  Python's None is the record None, a string s is Str(s).          *)
(***************************************************************************)
EXTENDS Integers, Sequences, FiniteSets, TLC

VARIABLES call, lcall, rcall, text, json_text, json_text2,
          models, output, json_file, api_key, mpc, next_model, queried,
          shared_config, config_args, config_op, clients,
          calls, current_model, chat_op, file_before

vars == <<call, lcall, rcall, text, json_text, json_text2,
          models, output, json_file, api_key, mpc, next_model, queried,
          shared_config, config_args, config_op, clients,
          calls, current_model, chat_op, file_before>>

(* ------------------------------ bounds --------------------------------- *)
\* largest max_retries a caller passes
MaxRetriesBound == 3
\* longest text the extractor is fed exhaustively
MaxTextLen == 6
\* largest number of models on the command line
MaxModels == 3
\* largest number of clients built from one config
MaxClients == 2
MaxPairRetries == 2

(* ------------------------------ tokens --------------------------------- *)
\* the triple-backtick marker (a backtick cannot be written in a TLA+ string)
FENCE == "'''"
NL == "\n"
SP == " "
LangTag == "json"
Prose == "Here"
DocA1 == "{\"a\":1}"
DocTaskA == "{\"name\":\"A\",\"priority\":\"high\"}"
DocTaskB == "{\"name\":\"B\",\"priority\":1}"
DocNameOnly == "{\"name\":\"A\"}"
DocItemsA == "{\"items\":[{\"name\":\"A\",\"priority\":\"high\"}]}"
DocItemsCA == "{\"items\":[{\"name\":\"C\",\"priority\":\"low\"},{\"name\":\"A\",\"priority\":\"high\"}]}"
DocTopic == "{\"condition_name\":\"Diabetes\",\"summary\":\"S\",\"category\":\"Endocrine\"}"
DocTopicNoSummary == "{\"condition_name\":\"Diabetes\",\"category\":\"Endocrine\"}"
DocItemsBad == "{\"items\":[{\"name\":\"A\",\"priority\":\"high\"},{\"name\":\"B\",\"priority\":1}]}"

None == [isNone |-> TRUE]
Str(s) == [isNone |-> FALSE, str |-> s]

(* ------------------------- str.strip / split / join -------------------- *)
IsSpace(c) == c \in {NL, SP}

RECURSIVE lstrip(_)
lstrip(s) == IF s # <<>> /\ IsSpace(Head(s)) THEN lstrip(Tail(s)) ELSE s

RECURSIVE rstrip(_)
rstrip(s) == IF s # <<>> /\ IsSpace(s[Len(s)]) THEN rstrip(SubSeq(s, 1, Len(s) - 1)) ELSE s

strip(s) == rstrip(lstrip(s))

\* s.split("\n"): always at least one line, lines hold no newline
RECURSIVE split(_)
split(s) ==
    IF s = <<>> THEN << <<>> >>
    ELSE LET rest == split(Tail(s))
         IN  IF Head(s) = NL THEN << <<>> >> \o rest
             ELSE << <<Head(s)>> \o Head(rest) >> \o Tail(rest)

\* "\n".join(lines)
RECURSIVE join(_)
join(lines) ==
    IF lines = <<>> THEN <<>>
    ELSE IF Len(lines) = 1 THEN Head(lines)
    ELSE Head(lines) \o <<NL>> \o join(Tail(lines))

startswith_fence(s) == s # <<>> /\ Head(s) = FENCE

(* --------------------------- _extract_json ----------------------------- *)
\* the bug of dropping the first line whether or not it is a fence line
_extract_json_unconditional(raw) ==
    LET lines1 == Tail(split(strip(raw)))
        lines2 == IF lines1 # <<>> /\ strip(lines1[Len(lines1)]) = <<FENCE>>
                  THEN SubSeq(lines1, 1, Len(lines1) - 1)
                  ELSE lines1
    IN  strip(join(lines2))

\* the bug of reading the last line of a list that may be empty
_extract_json_unguarded(raw) ==
    LET t == strip(raw)
    IN  IF startswith_fence(t)
        THEN LET lines1 == Tail(split(t))
             IN  IF lines1 = <<>> THEN <<"IndexError">>
                 ELSE strip(join(IF strip(lines1[Len(lines1)]) = <<FENCE>>
                                 THEN SubSeq(lines1, 1, Len(lines1) - 1)
                                 ELSE lines1))
        ELSE t

\* the extractor that looks for the payload line and returns it alone
_extract_json_payload_only(raw) ==
    LET lines == split(strip(raw))
        docs == {i \in 1..Len(lines) : strip(lines[i]) = <<DocA1>>}
    IN  IF docs # {} THEN strip(lines[CHOOSE i \in docs : \A j \in docs : i <= j])
        ELSE strip(raw)

\* the bug of keeping the closing fence line
_extract_json_keeps_closing(raw) ==
    LET t == strip(raw)
    IN  IF startswith_fence(t)
        THEN strip(join(Tail(split(t))))
        ELSE t

_extract_json(raw) ==
    LET t == strip(raw)
    IN  IF startswith_fence(t)
        THEN LET lines1 == Tail(split(t))
                 lines2 == IF lines1 # <<>> /\ strip(lines1[Len(lines1)]) = <<FENCE>>
                           THEN SubSeq(lines1, 1, Len(lines1) - 1)
                           ELSE lines1
             IN  strip(join(lines2))
        ELSE t

(* ------------------------ json.loads --------------------------------- *)
JStr(s) == [t |-> "str", s |-> s]
JInt(n) == [t |-> "int", n |-> n]
JList(l) == [t |-> "list", l |-> l]

TaskObjA == [name |-> JStr("A"), priority |-> JStr("high")]
TaskObjB == [name |-> JStr("B"), priority |-> JInt(1)]
TaskObjC == [name |-> JStr("C"), priority |-> JStr("low")]

JsonDocs == {DocA1, DocTaskA, DocTaskB, DocNameOnly, DocItemsA, DocItemsCA, DocItemsBad,
             DocTopic, DocTopicNoSummary}

\* the object a one-word JSON document denotes
ParsedDoc(w) ==
    CASE w = DocA1 -> [a |-> JInt(1)]
      [] w = DocTaskA -> TaskObjA
      [] w = DocTaskB -> TaskObjB
      [] w = DocNameOnly -> [name |-> JStr("A")]
      [] w = DocItemsA -> [items |-> JList(<<TaskObjA>>)]
      [] w = DocItemsCA -> [items |-> JList(<<TaskObjC, TaskObjA>>)]
      [] w = DocItemsBad -> [items |-> JList(<<TaskObjA, TaskObjB>>)]
      [] w = DocTopic -> [condition_name |-> JStr("Diabetes"), summary |-> JStr("S"),
                          category |-> JStr("Endocrine")]
      [] w = DocTopicNoSummary -> [condition_name |-> JStr("Diabetes"),
                                   category |-> JStr("Endocrine")]

\* json.loads skips surrounding whitespace and accepts exactly one document;
\* str(JSONDecodeError) depends on the document it was given
json_loads(s) ==
    LET d == strip(s)
    IN  IF Len(d) = 1 /\ d[1] \in JsonDocs
        THEN [ok |-> TRUE, data |-> ParsedDoc(d[1]), error |-> <<>>]
        ELSE [ok |-> FALSE, data |-> [a |-> JInt(0)],
              error |-> <<"JSONDecodeError">> \o s]

(* ------------------------ response_model ------------------------------ *)
\* pydantic models: an object of required string fields, or the single-field
\* wrapper whose field items is a list of such objects
Task == [title |-> "Task", fields |-> <<"name", "priority">>, items |-> <<>>]
Contact == [title |-> "Contact", fields |-> <<"name">>, items |-> <<>>]

ListWrapper(item_model) == [title |-> "ListWrapper", fields |-> <<>>, items |-> <<item_model>>]

ItemModels == {Task, Contact}

Range(f) == {f[i] : i \in DOMAIN f}

\* the errors of one object against the required string fields, in field order
RECURSIVE FieldErrors(_, _, _)
FieldErrors(fields, obj, loc) ==
    IF fields = <<>> THEN <<>>
    ELSE LET f == Head(fields)
             e == IF f \notin DOMAIN obj THEN loc \o <<f, "missing">>
                  ELSE IF obj[f].t # "str" THEN loc \o <<f, "string_type">>
                  ELSE <<>>
         IN  e \o FieldErrors(Tail(fields), obj, loc)

\* the typed object: declared fields only, unknown fields are ignored
TypedObject(fields, obj) == [f \in Range(fields) |-> obj[f].s]

RECURSIVE ItemErrors(_, _, _)
ItemErrors(fields, l, i) ==
    IF i > Len(l) THEN <<>>
    ELSE FieldErrors(fields, l[i], <<"items", ToString(i - 1)>>) \o ItemErrors(fields, l, i + 1)

\* response_model.model_validate(parsed_data)
model_validate(response_model, data) ==
    LET errs == IF response_model.items = <<>>
                THEN FieldErrors(response_model.fields, data, <<>>)
                ELSE IF "items" \notin DOMAIN data THEN <<"items", "missing">>
                ELSE IF data.items.t # "list" THEN <<"items", "list_type">>
                ELSE ItemErrors(response_model.items[1].fields, data.items.l, 1)
    IN  IF errs # <<>>
        THEN [ok |-> FALSE, value |-> <<>>,
              error |-> <<"ValidationError", response_model.title>> \o errs]
        ELSE [ok |-> TRUE, error |-> <<>>,
              value |-> IF response_model.items = <<>>
                        THEN << TypedObject(response_model.fields, data) >>
                        ELSE << [items |-> [i \in 1..Len(data.items.l) |->
                                   TypedObject(response_model.items[1].fields, data.items.l[i])]] >>]

(* ------------------------ exceptions and messages ---------------------- *)
\* an exception object: its class and str(e)
Exc(type, msg) == [isNone |-> FALSE, type |-> type, msg |-> msg]

Message(role, content) == [role |-> role, content |-> content]

\* json.dumps(schema, indent=2) of response_model.model_json_schema()
SchemaJson(response_model) ==
    <<"{schema", response_model.title>>
    \o (IF response_model.items = <<>> THEN <<>> ELSE <<"of", response_model.items[1].title>>)
    \o <<"}">>

schema_instruction(response_model) ==
    <<"You must respond with valid JSON that matches this exact schema:", NL>>
    \o SchemaJson(response_model)
    \o <<NL, NL, "Respond ONLY with the JSON object, no additional text or markdown formatting.">>

\* the bug of leaving the result unstripped
enhanced_system_prompt_unstripped(config, response_model) ==
    LET base_system_prompt == IF config.system_prompt.isNone THEN <<>> ELSE config.system_prompt.str
    IN  base_system_prompt \o <<NL, NL>> \o schema_instruction(response_model)

\* f"{base_system_prompt}\n\n{schema_instruction}".strip()
enhanced_system_prompt(config, response_model) ==
    LET base_system_prompt == IF config.system_prompt.isNone THEN <<>> ELSE config.system_prompt.str
    IN  strip(base_system_prompt \o <<NL, NL>> \o schema_instruction(response_model))

error_msg(e) ==
    <<"Your previous response was invalid. Error:">> \o e.msg
    \o <<NL, "Please provide a valid JSON response matching the schema exactly.">>

(* ------------------------ generate_structured -------------------------- *)
NoOutcome == [kind |-> "none", value |-> <<>>, exc |-> None]
Returned(v) == [kind |-> "return", value |-> v, exc |-> None]
Raised(e) == [kind |-> "raise", value |-> <<>>, exc |-> e]

NoConfig == [model |-> None, system_prompt |-> None]

\* no call in progress
IdleCall ==
    [pc |-> "idle", config |-> NoConfig, user_prompt |-> <<>>, response_model |-> Task,
     max_retries |-> 0, unwrap |-> FALSE, messages |-> <<>>, attempt |-> 0,
     last_error |-> None, response_text |-> None, outcome |-> NoOutcome,
     requests |-> <<>>, replies |-> <<>>]

\* the bug of iterating once more than the budget
InRange_inclusive(attempt, max_retries) == attempt <= max_retries

\* for attempt in range(max_retries)
InRange(attempt, max_retries) == attempt < max_retries

\* the bug of appending feedback after the last attempt too
AttemptsRemain_always(attempt, max_retries) == TRUE

\* if attempt < max_retries - 1
AttemptsRemain(attempt, max_retries) == attempt < max_retries - 1

\* the bug of retrying on every exception
IsValidationFailure_any(e) == TRUE

\* the first except clause matches on the class of the exception, wherever in
\* the try block it was raised
IsValidationFailure(e) == e.type \in {"JSONDecodeError", "ValidationError"}

\* the bug of feeding back the extracted text instead of the raw reply
Feedback_extracted(messages, response_text, e) ==
    messages \o << Message("assistant",
                      IF response_text.isNone THEN None
                      ELSE Str(_extract_json(response_text.str))),
                   Message("user", Str(error_msg(e))) >>

\* the bug of rebuilding the history from the first two messages
Feedback_truncating(messages, response_text, e) ==
    SubSeq(messages, 1, 2) \o << Message("assistant", response_text),
                                 Message("user", Str(error_msg(e))) >>

Feedback(messages, response_text, e) ==
    messages \o << Message("assistant", response_text),
                   Message("user", Str(error_msg(e))) >>

\* raise ValidationError("Failed to generate ..."): pydantic's ValidationError
\* has no constructor callable from Python, so evaluating the operand of raise
\* raises TypeError and the formatted message is lost
RaiseAfterRetries(c) == Raised(Exc("TypeError", <<"No constructor defined">>))

\* the top of the loop: the next create() call, or the statement after the loop
LoopTop(c) ==
    IF InRange(c.attempt, c.max_retries)
    THEN [c EXCEPT !.pc = "await", !.requests = Append(@, c.messages)]
    ELSE [c EXCEPT !.pc = "done", !.outcome = RaiseAfterRetries(c)]

\* the two except clauses of the loop body
HandleException(c, e) ==
    IF IsValidationFailure(e)
    THEN LoopTop([c EXCEPT !.last_error = e,
                           !.messages = IF AttemptsRemain(c.attempt, c.max_retries)
                                        THEN Feedback(c.messages, c.response_text, e)
                                        ELSE @,
                           !.attempt = @ + 1])
    ELSE [c EXCEPT !.pc = "done",
                   !.outcome = Raised(Exc("RuntimeError", <<"API request failed:">> \o e.msg))]

\* the bug of looping on after a valid reply
ReturnValidated_continue(c, v) == LoopTop([c EXCEPT !.attempt = @ + 1])

\* return validated_response (the list variant returns result.items)
ReturnValidated(c, v) ==
    [c EXCEPT !.pc = "done",
              !.outcome = Returned(IF c.unwrap THEN << v[1].items >> ELSE v)]

\* the rest of the try block once create() has given its outcome o
Receive(c, o) ==
    LET c1 == [c EXCEPT !.replies = Append(@, o)]
    IN  IF o.raises THEN HandleException(c1, o.exc)
        ELSE LET c2 == [c1 EXCEPT !.response_text = o.content]
             IN  IF o.content.isNone
                 THEN HandleException(c2, Exc("AttributeError",
                                              <<"'NoneType' object has no attribute 'strip'">>))
                 ELSE LET jt == _extract_json(o.content.str)
                          parsed == json_loads(jt)
                          validated == model_validate(c.response_model, parsed.data)
                      IN  IF ~parsed.ok
                          THEN HandleException(c2, Exc("JSONDecodeError", parsed.error))
                          ELSE IF ~validated.ok
                          THEN HandleException(c2, Exc("ValidationError", validated.error))
                          ELSE ReturnValidated(c2, validated.value)

\* generate_structured up to its first create() call
generate_structured(config, user_prompt, response_model, max_retries) ==
    LoopTop([IdleCall EXCEPT
                !.config = config, !.user_prompt = user_prompt,
                !.response_model = response_model, !.max_retries = max_retries,
                !.messages = << Message("system", Str(enhanced_system_prompt(config, response_model))),
                                Message("user", Str(user_prompt)) >>])

\* the bug of not passing max_retries on
generate_structured_list_default_retries(config, user_prompt, item_model, max_retries) ==
    [generate_structured(config, user_prompt, ListWrapper(item_model), 3)
        EXCEPT !.unwrap = TRUE]

\* generate_structured_list up to the first create() call of the call it delegates to
generate_structured_list(config, user_prompt, item_model, max_retries) ==
    [generate_structured(config, user_prompt, ListWrapper(item_model), max_retries)
        EXCEPT !.unwrap = TRUE]

(* ------------------------ the completion service ----------------------- *)
\* what self.client.chat.completions.create gives: a completion whose message
\* content is a string or None, or an exception
Completion(content) == [raises |-> FALSE, content |-> content, exc |-> None]
ServiceRaises(e) == [raises |-> TRUE, content |-> None, exc |-> e]

RTask == <<DocTaskA>>
RFencedTask == <<FENCE, LangTag, NL, DocTaskA, NL, FENCE>>
RFencedItems == <<SP, FENCE, LangTag, NL, DocItemsA, NL, FENCE, SP>>
RItemsCA == <<DocItemsCA>>
RItemsBad == <<DocItemsBad>>
RProse == <<Prose, NL, DocTaskA>>
RBadType == <<DocTaskB>>
RFencedNameOnly == <<FENCE, NL, DocNameOnly, NL, FENCE>>

ReplyTexts == {RTask, RFencedTask, RFencedItems, RItemsCA, RItemsBad, RProse, RBadType, RFencedNameOnly}

\* a transport failure, and the JSONDecodeError the client raises on a response
\* body that is not JSON
ServiceErrors ==
    { Exc("APIConnectionError", <<"Connection error.">>),
      Exc("JSONDecodeError", <<"JSONDecodeError", "body">>) }

ServiceOutcomes ==
    {Completion(Str(t)) : t \in ReplyTexts} \cup {Completion(None)}
    \cup {ServiceRaises(e) : e \in ServiceErrors}

Prompts == { <<"Create", SP, "tasks">> }
SystemPrompts == { None, Str(<<"Be", SP, "brief.">>), Str(<<SP, "Be", SP, "brief.">>), Str(<<SP>>) }
Configs == { [model |-> Str(<<"mistral">>), system_prompt |-> sp] : sp \in SystemPrompts }
ResponseModels == ItemModels \cup {ListWrapper(Task)}

(* ------------------------ Spec: one generate_structured call ----------- *)
IdleCallVars == call = IdleCall
IdleListVars == lcall = IdleCall /\ rcall = IdleCall
IdleExtractVars == text = <<>> /\ json_text = None /\ json_text2 = None
IdleBatchVars ==
    /\ models = <<>> /\ output = None /\ json_file = None
    /\ api_key = FALSE /\ mpc = "off" /\ next_model = 0 /\ queried = <<>>
    /\ file_before = None

IdleConfigVars ==
    /\ shared_config = None /\ config_args = None /\ config_op = [op |-> "none"] /\ clients = 0

IdlePairVars == calls = [i \in 1..2 |-> IdleCall]
IdleChatVars == current_model = None /\ chat_op = [op |-> "none"]

listVars == <<lcall, rcall>>
configVars == <<shared_config, config_args, config_op, clients>>
pairVars == <<calls>>
chatVars == <<current_model, chat_op>>
extractVars == <<text, json_text, json_text2>>
batchVars == <<models, output, json_file, api_key, mpc, next_model, queried, file_before>>

Init == call = IdleCall /\ IdleListVars /\ IdleExtractVars /\ IdleBatchVars /\ IdleConfigVars /\ IdlePairVars /\ IdleChatVars

GenerateStructured ==
    /\ call.pc = "idle"
    /\ \E config \in Configs, user_prompt \in Prompts,
          response_model \in ResponseModels, max_retries \in 0..MaxRetriesBound :
          call' = generate_structured(config, user_prompt, response_model, max_retries)
    /\ UNCHANGED <<listVars, extractVars, batchVars, configVars, pairVars, chatVars>>

ServiceReturns ==
    /\ call.pc = "await"
    /\ \E o \in ServiceOutcomes : call' = Receive(call, o)
    /\ UNCHANGED <<listVars, extractVars, batchVars, configVars, pairVars, chatVars>>

Next == GenerateStructured \/ ServiceReturns

Spec == Init /\ [][Next]_vars

(* ------------------------ SpecList: the list variant beside the call it -*)
(* ------------------------ is documented to equal ------------------------*)
InitList ==
    /\ lcall = IdleCall /\ rcall = IdleCall
    /\ IdleCallVars /\ IdleExtractVars /\ IdleBatchVars /\ IdleConfigVars /\ IdlePairVars /\ IdleChatVars

\* generate_structured_list(prompt, item_model, max_retries) in lcall, and
\* generate_structured(prompt, {items: list<item_model>}, max_retries) in rcall
GenerateStructuredList ==
    /\ lcall.pc = "idle" /\ rcall.pc = "idle"
    /\ \E config \in Configs, user_prompt \in Prompts,
          item_model \in ItemModels, max_retries \in 0..MaxRetriesBound :
          /\ lcall' = generate_structured_list(config, user_prompt, item_model, max_retries)
          /\ rcall' = generate_structured(config, user_prompt, ListWrapper(item_model), max_retries)
    /\ UNCHANGED <<call, extractVars, batchVars, configVars, pairVars, chatVars>>

\* the service gives both calls the same outcome
ListServiceReturns ==
    /\ lcall.pc = "await" \/ rcall.pc = "await"
    /\ \E o \in ServiceOutcomes :
          /\ lcall' = IF lcall.pc = "await" THEN Receive(lcall, o) ELSE lcall
          /\ rcall' = IF rcall.pc = "await" THEN Receive(rcall, o) ELSE rcall
    /\ UNCHANGED <<call, extractVars, batchVars, configVars, pairVars, chatVars>>

NextList == GenerateStructuredList \/ ListServiceReturns

SpecList == InitList /\ [][NextList]_vars

(* ------------------------ SpecExtract: _extract_json on texts ---------- *)
Alphabet == {FENCE, NL, SP, LangTag, DocA1}

\* the reply of the documented example
ExampleFenced == <<SP, FENCE, LangTag, NL, DocA1, NL, FENCE, SP>>

\* replies with prose around the payload, and a fenced reply inside a fence
ProseBefore == <<Prose, SP, Prose, NL, DocA1>>
ProseAfter == <<DocA1, NL, Prose>>
ProseAroundFenced == <<Prose, NL, FENCE, LangTag, NL, DocA1, NL, FENCE, NL, Prose>>
ProseAfterFenced == <<FENCE, LangTag, NL, DocA1, NL, FENCE, NL, Prose>>
FenceInFence == <<FENCE, NL, FENCE, LangTag, NL, DocA1, NL, FENCE, NL, FENCE>>

ExampleTexts == {ExampleFenced, ProseBefore, ProseAfter, ProseAroundFenced, ProseAfterFenced,
                 FenceInFence}

Texts == (UNION {[1..n -> Alphabet] : n \in 0..MaxTextLen}) \cup ExampleTexts

InitExtract ==
    /\ text \in Texts /\ json_text = None /\ json_text2 = None
    /\ IdleCallVars /\ IdleListVars /\ IdleBatchVars /\ IdleConfigVars /\ IdlePairVars /\ IdleChatVars

\* json_text = self._extract_json(response_text)
ExtractJson ==
    /\ json_text.isNone
    /\ json_text' = Str(_extract_json(text))
    /\ UNCHANGED <<text, json_text2, call, listVars, batchVars, configVars, pairVars, chatVars>>

\* the extractor applied to its own result
ExtractAgain ==
    /\ ~json_text.isNone /\ json_text2.isNone
    /\ json_text2' = Str(_extract_json(json_text.str))
    /\ UNCHANGED <<text, json_text, call, listVars, batchVars, configVars, pairVars, chatVars>>

NextExtract == ExtractJson \/ ExtractAgain

SpecExtract == InitExtract /\ [][NextExtract]_vars

(* ------------------------ SpecBatch: the cli_medtopic run --------------- *)
\* the required fields of MedicalTopic; its other fields have defaults
MedicalTopic ==
    [title |-> "MedicalTopic", fields |-> <<"condition_name", "summary", "category">>,
     items |-> <<>>]

ModelNames == {"mistral", "gpt-4"}

\* MODEL_ALIASES.get(model_input.lower(), model_input)
resolve_model(model_input) ==
    IF model_input = "mistral" THEN "mistralai/mistral-small-3.2-24b-instruct:free"
    ELSE model_input

topic == "diabetes"
prompt == <<"You are a medical expert creating a comprehensive clinical reference on:", SP, topic>>

Dict(t, answers) == [isNone |-> FALSE, topic |-> t, answers |-> answers]

\* an answer an earlier run left in the file
EarlierAnswer == [model |-> "gpt-4", timestamp |-> "earlier", error |-> <<"API request failed:", "Connection error.">>]

BatchOutcomes ==
    { Completion(Str(<<DocTopic>>)),
      Completion(Str(<<FENCE, LangTag, NL, DocTopicNoSummary, NL, FENCE>>)),
      ServiceRaises(Exc("APIConnectionError", <<"Connection error.">>)) }

\* the service outcomes of one call, one per attempt of the default budget
DefaultRetries == 3

InitBatch ==
    /\ models \in UNION {[1..n -> ModelNames] : n \in 1..MaxModels}
    /\ json_file \in {None, Dict(topic, <<EarlierAnswer>>)}
    /\ api_key \in BOOLEAN
    /\ output = None /\ mpc = "load" /\ next_model = 1 /\ queried = <<>>
    /\ file_before = json_file
    /\ IdleCallVars /\ IdleListVars /\ IdleExtractVars /\ IdleConfigVars /\ IdlePairVars /\ IdleChatVars

\* load the existing file or create the new structure
LoadOutput ==
    /\ mpc = "load"
    /\ output' = IF json_file.isNone THEN Dict(topic, <<>>) ELSE json_file
    /\ mpc' = "loop"
    /\ UNCHANGED <<models, json_file, api_key, next_model, queried, file_before, call, listVars, extractVars, configVars, pairVars, chatVars>>

\* OpenRouterClient(config=ModelConfig(model=model, temperature=0.3))
OpenRouterClient(model) ==
    IF ~api_key
    THEN [IdleCall EXCEPT !.pc = "done",
                          !.outcome = Raised(Exc("ValueError", <<"API key not found.">>))]
    ELSE [IdleCall EXCEPT !.config = [model |-> Str(<<resolve_model(model)>>),
                                      system_prompt |-> None]]

\* a call driven to its end by the outcomes the service gives it
RECURSIVE RunCall(_, _)
RunCall(c, outs) ==
    IF c.pc # "await" \/ outs = <<>> THEN c
    ELSE RunCall(Receive(c, Head(outs)), Tail(outs))

\* the bug of catching the service error only
Caught_runtime_only(e) == e.type = "RuntimeError"

\* except Exception as e
Caught(e) == e.type \in {"RuntimeError", "TypeError", "ValueError"}

\* the body of the loop for one model: the call, the appended answer, the
\* rewritten file
QueryModel ==
    /\ mpc = "loop" /\ next_model <= Len(models)
    /\ \E outs \in [1..DefaultRetries -> BatchOutcomes] :
          LET model == models[next_model]
              client == OpenRouterClient(model)
              c == IF client.pc = "done" THEN client
                   ELSE RunCall(generate_structured(client.config, prompt, MedicalTopic,
                                                    DefaultRetries), outs)
              answer == IF c.outcome.kind = "return"
                        THEN [model |-> model, timestamp |-> "now", data |-> c.outcome.value[1]]
                        ELSE [model |-> model, timestamp |-> "now", error |-> c.outcome.exc.msg]
          IN  /\ queried' = Append(queried, c)
              /\ IF c.outcome.kind = "return" \/ Caught(c.outcome.exc)
                 THEN /\ output' = [output EXCEPT !.answers = Append(@, answer)]
                      /\ json_file' = output'
                      /\ next_model' = next_model + 1
                      /\ mpc' = IF next_model = Len(models) THEN "summary" ELSE "loop"
                 ELSE /\ mpc' = "uncaught"
                      /\ UNCHANGED <<output, json_file, next_model>>
    /\ UNCHANGED <<models, api_key, file_before, call, listVars, extractVars, configVars, pairVars, chatVars>>

\* what is left of the file when the run is cut short while json.dump writes
\* it: open(json_file, 'w') has emptied the file and a part of the new text is
\* on disk, of which the first n answers are whole
PartialFile(d, n) ==
    [isNone |-> FALSE, topic |-> d.topic, answers |-> SubSeq(d.answers, 1, n), partial |-> TRUE]

AbortPoints == {"querying", "writing"}

\* the run is cut short (KeyboardInterrupt, a signal, OSError of the write)
\* inside the loop body for one model: while the model is queried, or while
\* the file is rewritten
Abort ==
    /\ mpc = "loop" /\ next_model <= Len(models)
    /\ \E point \in AbortPoints, n \in 0..Len(output.answers) :
          json_file' = IF point = "querying" THEN json_file ELSE PartialFile(output, n)
    /\ mpc' = "aborted"
    /\ UNCHANGED <<models, output, api_key, next_model, queried, file_before,
                   call, listVars, extractVars, configVars, pairVars, chatVars>>

\* the two prints after the loop; the second reads output['responses']
Summary ==
    /\ mpc = "summary"
    /\ mpc' = IF "responses" \in DOMAIN output THEN "exit" ELSE "KeyError"
    /\ UNCHANGED <<models, output, json_file, api_key, next_model, queried, file_before,
                   call, listVars, extractVars, configVars, pairVars, chatVars>>

NextBatch == LoadOutput \/ QueryModel \/ Abort \/ Summary

SpecBatch == InitBatch /\ [][NextBatch]_vars

(* ------------------------ SpecConfig: ModelConfig and its clients ------ *)
\* a float in tenths, or nan; an optional int
Num(n) == [nan |-> FALSE, tenths |-> n]
NaN == [nan |-> TRUE, tenths |-> 0]
SomeInt(n) == [isNone |-> FALSE, int |-> n]

\* x < n and x > n on Python floats: both are false of nan
lt(x, n) == ~x.nan /\ x.tenths < n
gt(x, n) == ~x.nan /\ x.tenths > n

\* ModelConfig.__post_init__: the ValueError it raises, or None
__post_init__(self) ==
    IF lt(self.temperature, 0) \/ gt(self.temperature, 20)
    THEN Exc("ValueError", <<"Temperature must be between 0 and 2">>)
    ELSE IF lt(self.top_p, 0) \/ gt(self.top_p, 10)
    THEN Exc("ValueError", <<"top_p must be between 0 and 1">>)
    ELSE IF lt(self.frequency_penalty, -20) \/ gt(self.frequency_penalty, 20)
    THEN Exc("ValueError", <<"frequency_penalty must be between -2 and 2">>)
    ELSE IF lt(self.presence_penalty, -20) \/ gt(self.presence_penalty, 20)
    THEN Exc("ValueError", <<"presence_penalty must be between -2 and 2">>)
    ELSE IF ~self.max_tokens.isNone /\ self.max_tokens.int < 1
    THEN Exc("ValueError", <<"max_tokens must be positive">>)
    ELSE None

Temperatures == {Num(-1), Num(0), Num(7), Num(20), Num(21), NaN}
TopPs == {Num(-1), Num(0), Num(10), Num(11)}
Penalties == {Num(-21), Num(-20), Num(20), Num(21)}
MaxTokens == {None, SomeInt(0), SomeInt(1)}
ConfigModels == {None, Str(<<"mistral">>), Str(<<"gpt-4">>)}

\* three of the twelve entries of MODELS
MODELS ==
    { "deepseek/deepseek-chat-v3.1:free",
      "mistralai/mistral-small-3.2-24b-instruct:free",
      "z-ai/glm-4.5-air:free" }

ConfigArgs ==
    [isNone : {FALSE}, model : ConfigModels, temperature : Temperatures,
     max_tokens : MaxTokens, top_p : TopPs, frequency_penalty : Penalties,
     presence_penalty : Penalties, system_prompt : {None}]

InitConfig ==
    /\ shared_config = None /\ config_args = None /\ config_op = [op |-> "none"] /\ clients = 0
    /\ IdleCallVars /\ IdleListVars /\ IdleExtractVars /\ IdleBatchVars /\ IdlePairVars /\ IdleChatVars

\* config = ModelConfig(...): the object exists once __post_init__ has passed
ConstructConfig ==
    /\ config_args.isNone
    /\ \E args \in ConfigArgs :
          /\ config_args' = args
          /\ shared_config' = IF __post_init__(args).isNone THEN args ELSE None
          /\ config_op' = [op |-> "ModelConfig",
                           outcome |-> IF __post_init__(args).isNone THEN Returned(<<>>)
                                       ELSE Raised(__post_init__(args))]
    /\ UNCHANGED <<clients, call, listVars, extractVars, batchVars, pairVars, chatVars>>

\* the bug of building the client's config afresh from the model alone
OpenRouterClient_init_fresh(cfg, key, choice) ==
    IF ~key THEN [raises |-> TRUE, config |-> cfg]
    ELSE [raises |-> FALSE,
          config |-> [cfg EXCEPT !.model = IF @.isNone THEN Str(<<choice>>)
                                           ELSE Str(<<resolve_model(@.str[1])>>),
                                 !.temperature = Num(7), !.top_p = Num(10)]]

\* OpenRouterClient.__init__(config) with the API key set or not and the
\* outcome of random.choice; self.default_config is the caller's object
OpenRouterClient_init(cfg, key, choice) ==
    IF ~key THEN [raises |-> TRUE, config |-> cfg]
    ELSE [raises |-> FALSE,
          config |-> [cfg EXCEPT !.model = IF @.isNone THEN Str(<<choice>>)
                                           ELSE Str(<<resolve_model(@.str[1])>>)]]

NewClient ==
    /\ ~shared_config.isNone /\ clients < MaxClients
    /\ \E key \in BOOLEAN, choice \in MODELS :
          LET r == OpenRouterClient_init(shared_config, key, choice)
          IN  /\ shared_config' = r.config
              /\ clients' = IF r.raises THEN clients ELSE clients + 1
              /\ config_op' = [op |-> "OpenRouterClient",
                               outcome |-> IF r.raises
                                           THEN Raised(Exc("ValueError", <<"API key not found.">>))
                                           ELSE Returned(<<>>)]
    /\ UNCHANGED <<config_args, call, listVars, extractVars, batchVars, pairVars, chatVars>>

\* generate_text: what it gives back for the outcome o of create()
generate_text(cfg, user_prompt, o) ==
    IF o.raises
    THEN Raised(Exc("RuntimeError", <<"API request failed:">> \o o.exc.msg))
    ELSE Returned(<< o.content >>)

ConfigOutcomes ==
    { Completion(Str(RTask)), Completion(Str(RItemsCA)),
      ServiceRaises(Exc("APIConnectionError", <<"Connection error.">>)) }

ClientGenerateText ==
    /\ clients > 0
    /\ \E user_prompt \in Prompts, o \in ConfigOutcomes :
          config_op' = [op |-> "generate_text",
                        outcome |-> generate_text(shared_config, user_prompt, o)]
    /\ UNCHANGED <<shared_config, config_args, clients, call, listVars, extractVars, batchVars, pairVars, chatVars>>

\* the config object as a finished call leaves it
ClientGenerateStructured ==
    /\ clients > 0
    /\ \E user_prompt \in Prompts, outs \in [1..DefaultRetries -> ConfigOutcomes] :
          LET c == RunCall(generate_structured(shared_config, user_prompt, Task,
                                               DefaultRetries), outs)
          IN  /\ shared_config' = c.config
              /\ config_op' = [op |-> "generate_structured", outcome |-> c.outcome]
    /\ UNCHANGED <<config_args, clients, call, listVars, extractVars, batchVars, pairVars, chatVars>>

ClientGenerateStructuredList ==
    /\ clients > 0
    /\ \E user_prompt \in Prompts, outs \in [1..DefaultRetries -> ConfigOutcomes] :
          LET c == RunCall(generate_structured_list(shared_config, user_prompt, Task,
                                                    DefaultRetries), outs)
          IN  /\ shared_config' = c.config
              /\ config_op' = [op |-> "generate_structured_list", outcome |-> c.outcome]
    /\ UNCHANGED <<config_args, clients, call, listVars, extractVars, batchVars, pairVars, chatVars>>

NextConfig ==
    \/ ConstructConfig \/ NewClient \/ ClientGenerateText
    \/ ClientGenerateStructured \/ ClientGenerateStructuredList

SpecConfig == InitConfig /\ [][NextConfig]_vars

(* ------------------------ SpecPair: two calls interleaved at their ----- *)
(* ------------------------ service round trips --------------------------- *)
PairPrompts == { <<"Create", SP, "tasks">>, <<"List", SP, "contacts">> }
PairConfigs ==
    { [model |-> Str(<<"mistral">>), system_prompt |-> sp] : sp \in {None, Str(<<"Be", SP, "brief.">>)} }
PairOutcomes ==
    { Completion(Str(RTask)), Completion(Str(RBadType)), Completion(Str(RProse)),
      Completion(None), ServiceRaises(Exc("APIConnectionError", <<"Connection error.">>)) }

InitPair ==
    /\ calls = [i \in 1..2 |-> IdleCall]
    /\ IdleCallVars /\ IdleListVars /\ IdleExtractVars /\ IdleBatchVars /\ IdleConfigVars
    /\ IdleChatVars

\* the bug of keeping the conversation where every call in progress sees it
ReceiveIn_shared_history(cs, i, o) ==
    LET c == Receive(cs[i], o)
    IN  [j \in DOMAIN cs |->
            IF j = i THEN c
            ELSE IF cs[j].pc = "await" THEN [cs[j] EXCEPT !.messages = c.messages]
            ELSE cs[j]]

\* call i goes on from its create(): messages, attempt, last_error and
\* response_text are locals of its own invocation
ReceiveIn(cs, i, o) == [cs EXCEPT ![i] = Receive(cs[i], o)]

\* one of the two callers invokes generate_structured
StartCall ==
    /\ \E i \in 1..2 :
          /\ calls[i].pc = "idle"
          /\ \E config \in PairConfigs, user_prompt \in PairPrompts,
                max_retries \in 0..MaxPairRetries :
                calls' = [calls EXCEPT ![i] =
                            generate_structured(config, user_prompt, Task, max_retries)]
    /\ UNCHANGED <<call, listVars, extractVars, batchVars, configVars, chatVars>>

\* the service answers one of the calls that wait for it
CallServiceReturns ==
    /\ \E i \in 1..2 :
          /\ calls[i].pc = "await"
          /\ \E o \in PairOutcomes : calls' = ReceiveIn(calls, i, o)
    /\ UNCHANGED <<call, listVars, extractVars, batchVars, configVars, chatVars>>

NextPair == StartCall \/ CallServiceReturns

SpecPair == InitPair /\ [][NextPair]_vars

(* ------------------------ SpecChat: OpenRouterChat --------------------- *)
TEXT_MODELS ==
    << "deepseek/deepseek-chat-v3.1:free",
       "mistralai/mistral-small-3.2-24b-instruct:free",
       "moonshotai/kimi-dev-72b:free",
       "meta-llama/llama-3.3-8b-instruct:free",
       "nvidia/nemotron-nano-9b-v2:free",
       "openai/gpt-oss-20b:free",
       "qwen/qwen3-14b:free",
       "qwen/qwen3-30b-a3b:free",
       "qwen/qwen3-235b-a22b:free",
       "tencent/hunyuan-a13b-instruct:free",
       "x-ai/grok-4-fast:free",
       "z-ai/glm-4.5-air:free" >>

VISION_MODELS == << >>

ALL_MODELS == TEXT_MODELS \o VISION_MODELS

\* x in seq
In(x, seq) == \E i \in 1..Len(seq) : seq[i] = x

\* a model argument: a string (a sequence of at most one token; the empty
\* string is the empty sequence) or None
ModelArgs ==
    {Str(<<ALL_MODELS[i]>>) : i \in 1..Len(ALL_MODELS)}
    \cup {Str(<<"openai/gpt-4o">>), Str(<<"mistral">>), Str(<<>>), None}

\* the truth value of a model argument
Truthy(model) == ~model.isNone /\ model.str # <<>>

\* model in a list of model names
InModels(model, seq) == ~model.isNone /\ Len(model.str) = 1 /\ In(model.str[1], seq)

ValueError_not_found == Raised(Exc("ValueError", <<"Model not found.">>))
ValueError_no_vision == Raised(Exc("ValueError", <<"Model does not support vision.">>))

\* what a method of the object gives: the outcome of the call and the
\* current_model it leaves
ChatResult(outcome, cm) == [outcome |-> outcome, current_model |-> cm]

\* OpenRouterChat.__init__ with an API key found or not
OpenRouterChat_init(key) ==
    IF ~key
    THEN ChatResult(Raised(Exc("ValueError", <<"API key must be provided.">>)), None)
    ELSE ChatResult(Returned(<<>>), Str(<<TEXT_MODELS[1]>>))

\* the bug of selecting the model without looking it up
set_model_unchecked(cm, model) == ChatResult(Returned(<<>>), model)

\* set_model(model)
set_model(cm, model) ==
    IF ~InModels(model, ALL_MODELS) THEN ChatResult(ValueError_not_found, cm)
    ELSE ChatResult(Returned(<<>>), model)

\* generate_text(messages, model) with the outcome o of create()
chat_generate_text(cm, model, o) ==
    LET use_model == IF Truthy(model) THEN model ELSE cm
    IN  IF ~InModels(use_model, ALL_MODELS) THEN ChatResult(ValueError_not_found, cm)
        ELSE IF o.raises THEN ChatResult(Raised(o.exc), cm)
        ELSE ChatResult(Returned(<< o.content >>), cm)

\* quick_chat(prompt, model)
quick_chat(cm, model, o) == chat_generate_text(cm, model, o)

is_vision_model(model) == InModels(model, VISION_MODELS)

\* vision_chat(prompt, image_url, model)
vision_chat(cm, model, o) ==
    LET use_model == IF Truthy(model) THEN model ELSE cm
    IN  IF ~is_vision_model(use_model) THEN ChatResult(ValueError_no_vision, cm)
        ELSE chat_generate_text(cm, use_model, o)

ChatOutcomes ==
    { Completion(Str(<<"Hello">>)), Completion(None),
      ServiceRaises(Exc("APIConnectionError", <<"Connection error.">>)) }

ChatOp(op, model, before, r) ==
    [op |-> op, model |-> model, before |-> before, outcome |-> r.outcome]

InitChat ==
    /\ current_model = None /\ chat_op = [op |-> "none"]
    /\ IdleCallVars /\ IdleListVars /\ IdleExtractVars /\ IdleBatchVars /\ IdleConfigVars
    /\ IdlePairVars

\* chat = OpenRouterChat(api_key): no object exists while the constructor raises
NewChat ==
    /\ current_model.isNone
    /\ \E key \in BOOLEAN :
          LET r == OpenRouterChat_init(key)
          IN  /\ current_model' = r.current_model
              /\ chat_op' = ChatOp("OpenRouterChat", None, current_model, r)
    /\ UNCHANGED <<call, listVars, extractVars, batchVars, configVars, pairVars>>

SetModel ==
    /\ ~current_model.isNone
    /\ \E model \in ModelArgs :
          LET r == set_model(current_model, model)
          IN  /\ current_model' = r.current_model
              /\ chat_op' = ChatOp("set_model", model, current_model, r)
    /\ UNCHANGED <<call, listVars, extractVars, batchVars, configVars, pairVars>>

ChatGenerateText ==
    /\ ~current_model.isNone
    /\ \E model \in ModelArgs, o \in ChatOutcomes :
          LET r == chat_generate_text(current_model, model, o)
          IN  /\ current_model' = r.current_model
              /\ chat_op' = ChatOp("generate_text", model, current_model, r)
    /\ UNCHANGED <<call, listVars, extractVars, batchVars, configVars, pairVars>>

QuickChat ==
    /\ ~current_model.isNone
    /\ \E model \in ModelArgs, o \in ChatOutcomes :
          LET r == quick_chat(current_model, model, o)
          IN  /\ current_model' = r.current_model
              /\ chat_op' = ChatOp("quick_chat", model, current_model, r)
    /\ UNCHANGED <<call, listVars, extractVars, batchVars, configVars, pairVars>>

VisionChat ==
    /\ ~current_model.isNone
    /\ \E model \in ModelArgs, o \in ChatOutcomes :
          LET r == vision_chat(current_model, model, o)
          IN  /\ current_model' = r.current_model
              /\ chat_op' = ChatOp("vision_chat", model, current_model, r)
    /\ UNCHANGED <<call, listVars, extractVars, batchVars, configVars, pairVars>>

NextChat == NewChat \/ SetModel \/ ChatGenerateText \/ QuickChat \/ VisionChat

SpecChat == InitChat /\ [][NextChat]_vars

(* ------------------------ properties of one call ----------------------- *)
Contains(s, sub) ==
    \E i \in 0..(Len(s) - Len(sub)) : SubSeq(s, i + 1, i + Len(sub)) = sub

IsPrefix(s, t) == Len(s) <= Len(t) /\ SubSeq(t, 1, Len(s)) = s

\* what decoding the reply o against response_model gives
Decode(o, response_model) ==
    LET parsed == json_loads(_extract_json(o.content.str))
    IN  IF ~parsed.ok THEN [ok |-> FALSE, value |-> <<>>, error |-> parsed.error]
        ELSE model_validate(response_model, parsed.data)

IsText(o) == ~o.raises /\ ~o.content.isNone
ReplyInvalid(o, response_model) == IsText(o) /\ ~Decode(o, response_model).ok
ReplyValid(o, response_model) == IsText(o) /\ Decode(o, response_model).ok

AllInvalid(c, n) == \A i \in 1..n : ReplyInvalid(c.replies[i], c.response_model)

\* the loop ran through all its attempts
Exhausted(c) == c.pc = "done" /\ c.attempt = c.max_retries

\* C1: when every reply fails JSON parsing or schema validation, the service
\* is invoked exactly max_retries times and the call then fails; it is never
\* invoked a further time.
C1_RetryBudgetExact ==
    AllInvalid(call, Len(call.replies)) =>
        /\ Len(call.requests) <= call.max_retries
        /\ call.pc = "await" => Len(call.replies) < call.max_retries
        /\ call.pc = "done" =>
              /\ Len(call.requests) = call.max_retries
              /\ Len(call.replies) = call.max_retries
              /\ call.outcome.kind = "raise"

C1_Witness ==
    /\ call.pc = "done" /\ call.max_retries = 3
    /\ Len(call.replies) = 3 /\ AllInvalid(call, 3)
    /\ Len(call.requests) = 3 /\ call.outcome.kind = "raise"

\* C2: if the first k-1 replies are invalid and the k-th is valid, the call
\* has returned the value decoded from the k-th reply after exactly k
\* invocations of the service.
C2_SuccessShortCircuits ==
    \A k \in 1..Len(call.replies) :
        (AllInvalid(call, k - 1) /\ ReplyValid(call.replies[k], call.response_model)) =>
            /\ call.pc = "done"
            /\ call.outcome = Returned(Decode(call.replies[k], call.response_model).value)
            /\ Len(call.requests) = k
            /\ Len(call.replies) = k

C2_Witness ==
    /\ call.pc = "done" /\ call.outcome.kind = "return"
    /\ call.max_retries = 3 /\ Len(call.replies) = 2
    /\ ReplyInvalid(call.replies[1], call.response_model)
    /\ call.replies[2] = Completion(Str(RFencedTask))
    /\ call.outcome.value = << [name |-> "A", priority |-> "high"] >>

\* C3: a failure of the service call, whatever the error raised and at
\* whatever attempt, ends the call at once with RuntimeError 'API request
\* failed', with no further invocation and no feedback appended.
C3_ServiceErrorNeverRetried ==
    \A k \in 1..Len(call.replies) :
        call.replies[k].raises =>
            /\ call.pc = "done"
            /\ call.outcome.kind = "raise"
            /\ call.outcome.exc.type = "RuntimeError"
            /\ Head(call.outcome.exc.msg) = "API request failed:"
            /\ Len(call.requests) = k
            /\ Len(call.replies) = k
            /\ call.messages = call.requests[k]

\* C4: after attempt k got a reply that failed validation, the conversation
\* sent at attempt k+1 is the one sent at attempt k followed by exactly the
\* assistant message holding the unmodified raw reply of attempt k and a user
\* message holding the error of attempt k and the directive to resend.
C4_FeedbackIsLiteralReply ==
    \A k \in 1..(Len(call.requests) - 1) :
        ReplyInvalid(call.replies[k], call.response_model) =>
            LET prev == call.requests[k]
                sent == call.requests[k + 1]
                n == Len(prev)
            IN  /\ Len(sent) = n + 2
                /\ SubSeq(sent, 1, n) = prev
                /\ sent[n + 1] = Message("assistant", call.replies[k].content)
                /\ sent[n + 2].role = "user"
                /\ Contains(sent[n + 2].content.str,
                            Decode(call.replies[k], call.response_model).error)
                /\ Contains(sent[n + 2].content.str,
                            <<"Please provide a valid JSON response matching the schema exactly.">>)

C4_Witness ==
    /\ Len(call.requests) = 3
    /\ call.response_model = Task
    /\ call.replies[1] = Completion(Str(RProse))
    /\ call.replies[2] = Completion(Str(RFencedNameOnly))
    /\ call.requests[3][5] = Message("assistant", Str(RFencedNameOnly))

\* C5: the conversation sent at an attempt is a prefix of the one sent at
\* every later attempt and of the current history, and its first two
\* messages are the initial system message and the user prompt.
C5_HistoryAppendOnly ==
    /\ \A i \in 1..Len(call.requests) :
          /\ \A j \in i..Len(call.requests) : IsPrefix(call.requests[i], call.requests[j])
          /\ IsPrefix(call.requests[i], call.messages)
          /\ Len(call.requests[i]) >= 2
          /\ call.requests[i][1].role = "system"
          /\ call.requests[i][2] = Message("user", Str(call.user_prompt))
          /\ call.requests[i][1] = call.requests[1][1]

C5_Witness ==
    /\ Len(call.requests) = 3
    /\ Len(call.requests[3]) = 6
    /\ call.requests[3][3].role = "assistant"

\* C6: when the retry budget is exhausted the call fails with the documented
\* ValidationError, which carries the error of the last failed attempt.
C6_ExhaustionRaisesValidationError ==
    (Exhausted(call) /\ call.max_retries >= 1) =>
        /\ call.outcome.kind = "raise"
        /\ call.outcome.exc.type = "ValidationError"
        /\ Contains(call.outcome.exc.msg, call.last_error.msg)

\* C7: the terminal failure after budget exhaustion includes the last raw
\* model output together with the last validation error.
C7_TerminalFailureCarriesDiagnostics ==
    (Exhausted(call) /\ call.max_retries >= 1 /\ IsText(call.replies[Len(call.replies)])) =>
        /\ call.outcome.kind = "raise"
        /\ Contains(call.outcome.exc.msg, call.response_text.str)
        /\ Contains(call.outcome.exc.msg, call.last_error.msg)

(* ------------------------ properties of the list variant --------------- *)
\* C8: generate_structured_list makes the same service invocations and ends
\* with the same failure as generate_structured on the wrapper schema with
\* the same max_retries, and on success returns exactly the wrapper's items.
C8_ListVariantDelegates ==
    /\ lcall.pc = rcall.pc
    /\ lcall.requests = rcall.requests
    /\ lcall.replies = rcall.replies
    /\ lcall.outcome.kind = rcall.outcome.kind
    /\ lcall.outcome.exc = rcall.outcome.exc
    /\ lcall.outcome.kind = "return" =>
          /\ lcall.outcome.value[1] = rcall.outcome.value[1].items
          /\ (lcall.replies[Len(lcall.replies)] = Completion(Str(<<DocItemsA>>))
              /\ lcall.response_model = ListWrapper(Task)) =>
                 lcall.outcome.value[1] = << [name |-> "A", priority |-> "high"] >>

C8_Witness ==
    /\ lcall.pc = "done" /\ lcall.outcome.kind = "return"
    /\ lcall.max_retries = 3 /\ Len(lcall.requests) = 2
    /\ lcall.replies[2] = Completion(Str(RItemsCA))
    /\ lcall.outcome.value[1] = << [name |-> "C", priority |-> "low"],
                                   [name |-> "A", priority |-> "high"] >>

(* ------------------------ properties of _extract_json ------------------ *)
FirstNL(t) == CHOOSE i \in 1..Len(t) : t[i] = NL /\ \A j \in 1..(i - 1) : t[j] # NL
LastNL(t) == CHOOSE i \in 1..Len(t) : t[i] = NL /\ \A j \in (i + 1)..Len(t) : t[j] # NL

\* an opening line that starts with a fence, payload lines, and a closing
\* line that is a fence
IsFenced(t) ==
    /\ t # <<>> /\ t[1] = FENCE
    /\ \E i \in 1..Len(t) : t[i] = NL
    /\ LET closing == SubSeq(t, LastNL(t) + 1, Len(t))
       IN  /\ closing # <<>>
           /\ closing[Len(closing)] = FENCE
           /\ \A j \in 1..(Len(closing) - 1) : closing[j] = SP

\* C10: a trimmed reply made of an opening fence line, payload lines and a
\* closing fence line gives the trimmed payload lines without either fence
\* line; a trimmed reply that does not start with a fence is returned as is;
\* the documented example gives {"a":1}.
C10_FenceStripping ==
    ~json_text.isNone =>
        LET t == strip(text)
        IN  /\ IsFenced(t) => json_text.str = strip(SubSeq(t, FirstNL(t) + 1, LastNL(t) - 1))
            /\ (t = <<>> \/ t[1] # FENCE) => json_text.str = t
            /\ text = ExampleFenced => json_text.str = <<DocA1>>

C10_Witness == text = ExampleFenced /\ json_text = Str(<<DocA1>>)

(* ------------------------ properties of the batch ---------------------- *)
LoopLeft == mpc \in {"summary", "exit", "KeyError"}

\* C9: a fatal error of one model's call is recorded for that model only;
\* every model of the batch is queried and has its own result recorded,
\* wherever the failing call stands.
C9_BatchIsolation ==
    mpc # "off" =>
        /\ mpc # "uncaught"
        /\ Len(queried) = next_model - 1
        /\ LoopLeft => Len(queried) = Len(models)
        /\ mpc # "load" =>
              \A i \in 1..Len(queried) :
                 LET answer == output.answers[Len(output.answers) - Len(queried) + i]
                 IN  /\ answer.model = models[i]
                     /\ queried[i].outcome.kind = "return" =>
                           /\ DOMAIN answer = {"model", "timestamp", "data"}
                           /\ answer.data = queried[i].outcome.value[1]
                     /\ queried[i].outcome.kind = "raise" =>
                           /\ DOMAIN answer = {"model", "timestamp", "error"}
                           /\ answer.error = queried[i].outcome.exc.msg

C9_Witness ==
    /\ mpc = "summary" /\ Len(models) = 3 /\ Len(queried) = 3
    /\ queried[1].outcome.kind = "return"
    /\ queried[2].outcome.kind = "raise" /\ queried[2].outcome.exc.type = "RuntimeError"
    /\ queried[3].outcome.kind = "return"
    /\ "data" \in DOMAIN output.answers[Len(output.answers)]
    /\ "error" \in DOMAIN output.answers[Len(output.answers) - 1]

(* ------------------------ more properties of _extract_json ------------- *)
\* C11 as stated: extracting twice gives what extracting once gives, for
\* every text.
C11_ExtractIdempotentEverywhere ==
    ~json_text2.isNone => json_text2 = json_text

\* C11 as amended: extracting twice gives what extracting once gives whenever
\* the first result does not itself start with a fence (so for every clean
\* JSON text and every singly fenced reply).
C11_ExtractIdempotentOffFence ==
    (~json_text2.isNone /\ ~startswith_fence(json_text.str)) => json_text2 = json_text

C11_Witness ==
    /\ text = ExampleFenced
    /\ json_text = Str(<<DocA1>>) /\ json_text2 = Str(<<DocA1>>)

\* C12: on every text the extractor raises nothing and returns a text: the
\* result is a string over the tokens of its input; the empty text, a
\* whitespace-only text, a lone fence line and a fence with the payload on
\* the same line all give the empty string.
C12_ExtractTotal ==
    ~json_text.isNone =>
        /\ json_text.str \in Seq(Range(text))
        /\ Len(json_text.str) <= Len(text)
        /\ text \in { <<>>, <<SP, NL, SP>>, <<FENCE>>, <<FENCE, LangTag>>, <<FENCE, DocA1>> }
              => json_text.str = <<>>

C12_Witness == text = <<FENCE>> /\ json_text = Str(<<>>)

IsProseLine(line) ==
    /\ \E i \in 1..Len(line) : line[i] \in {Prose, LangTag}
    /\ \A i \in 1..Len(line) : line[i] \in {Prose, LangTag, SP}

\* the lines of the payload, bare or in a fence of its own
PayloadForms == { << <<DocA1>> >>,
                  << <<FENCE>>, <<DocA1>>, <<FENCE>> >>,
                  << <<FENCE, LangTag>>, <<DocA1>>, <<FENCE>> >> }

\* prose lines before and/or after one JSON payload
ProseAroundPayload(t) ==
    LET lines == split(strip(t))
    IN  \E a \in 0..Len(lines), p \in PayloadForms :
           /\ a + Len(p) <= Len(lines)
           /\ Len(lines) > Len(p)
           /\ SubSeq(lines, a + 1, a + Len(p)) = p
           /\ \A i \in (1..a) \cup ((a + Len(p) + 1)..Len(lines)) : IsProseLine(lines[i])

\* C13 as stated: from a reply of prose lines around a payload the extractor
\* returns the payload alone.
C13_ExtractStripsProse ==
    (~json_text.isNone /\ ProseAroundPayload(text)) => json_text.str = <<DocA1>>

\* C13 as amended: the extractor strips surrounding whitespace and the fence
\* lines of a reply that starts with a fence, never prose: every prose line
\* of the reply is still a line of the result, and a reply that starts with
\* prose is returned trimmed and otherwise unchanged.
C13_ExtractKeepsProse ==
    (~json_text.isNone /\ ProseAroundPayload(text)) =>
        LET lines == split(strip(text))
            kept == split(json_text.str)
        IN  /\ \A i \in 1..Len(lines) :
                  IsProseLine(lines[i]) => \E j \in 1..Len(kept) : kept[j] = lines[i]
            /\ IsProseLine(lines[1]) => json_text.str = strip(text)
            /\ json_text.str # <<DocA1>>

C13_Witness ==
    /\ text = ProseAroundFenced
    /\ json_text = Str(ProseAroundFenced)

(* ------------------------ properties of ModelConfig -------------------- *)
Between(x, lo, hi) == ~x.nan /\ lo <= x.tenths /\ x.tenths <= hi

\* the ranges of the configuration invariant
RangesHold(c) ==
    /\ Between(c.temperature, 0, 20)
    /\ Between(c.top_p, 0, 10)
    /\ Between(c.frequency_penalty, -20, 20)
    /\ Between(c.presence_penalty, -20, 20)
    /\ c.max_tokens.isNone \/ c.max_tokens.int >= 1

\* C14: construction succeeds exactly when every field is in its range;
\* otherwise it fails with ValueError and there is no config object.
C14_ConstructionIffInRange ==
    ~config_args.isNone =>
        /\ RangesHold(config_args) <=> ~shared_config.isNone
        /\ ~RangesHold(config_args) =>
              /\ config_op.op = "ModelConfig"
              /\ config_op.outcome.kind = "raise"
              /\ config_op.outcome.exc.type = "ValueError"

AllButModel(c) == [c EXCEPT !.model = None]

\* C15 as stated: no operation of a client changes any field of the
\* caller's config.
C15_ConfigNeverChanges ==
    ~shared_config.isNone => shared_config = config_args

\* C15 as amended: no operation of a client changes any field other than
\* model; the constructor of a client writes the resolved model into the
\* caller's config (an alias becomes its full name, no model becomes a
\* member of MODELS), and the generate operations change no field at all.
C15_ConfigChangesOnlyModel ==
    ~shared_config.isNone =>
        /\ AllButModel(shared_config) = AllButModel(config_args)
        /\ clients = 0 => shared_config.model = config_args.model
        /\ clients > 0 =>
              IF config_args.model.isNone
              THEN shared_config.model \in {Str(<<m>>) : m \in MODELS}
              ELSE shared_config.model = Str(<<resolve_model(config_args.model.str[1])>>)

C15_Witness ==
    /\ clients = 2
    /\ config_args.model = Str(<<"mistral">>)
    /\ shared_config.model = Str(<<"mistralai/mistral-small-3.2-24b-instruct:free">>)
    /\ shared_config.temperature = Num(20)
    /\ config_op.op = "generate_structured_list"
    /\ config_op.outcome.kind = "return"

(* ------------------------ C16 ------------------------------------------ *)
IsSuffix(p, t) == Len(p) <= Len(t) /\ SubSeq(t, Len(t) - Len(p) + 1, Len(t)) = p

\* the call has sent at least one conversation
Sent(c) == c.pc # "idle" /\ Len(c.requests) >= 1

\* the first conversation is a system message and the verbatim user prompt, and
\* every attempt sends the same system message
FirstConversationShape(c) ==
    /\ Len(c.requests[1]) = 2
    /\ c.requests[1][1].role = "system"
    /\ c.requests[1][2] = Message("user", Str(c.user_prompt))
    /\ \A i \in 1..Len(c.requests) : c.requests[i][1] = c.requests[1][1]

\* C16 as stated: the conversation of the first attempt is exactly two
\* messages, the system message being the configured system prompt followed by
\* the schema instruction block (the block alone without a system prompt) and
\* the user message being the prompt verbatim; every attempt sends the same
\* system message.
C16_SystemPromptVerbatim ==
    Sent(call) =>
        /\ FirstConversationShape(call)
        /\ LET content == call.requests[1][1].content.str
               instr == schema_instruction(call.response_model)
           IN  IF call.config.system_prompt.isNone
               THEN content = instr
               ELSE /\ IsPrefix(call.config.system_prompt.str, content)
                    /\ IsSuffix(instr, content)

\* C16 as the code has it: the system message is the system prompt without its
\* leading whitespace, a blank line and the schema instruction block, and the
\* block alone when the system prompt is absent or all whitespace; the user
\* message is the prompt verbatim; every attempt sends the same system message.
C16_SystemPromptStripped ==
    Sent(call) =>
        /\ FirstConversationShape(call)
        /\ LET content == call.requests[1][1].content.str
               instr == schema_instruction(call.response_model)
               sp == call.config.system_prompt
           IN  IF sp.isNone \/ (\A i \in 1..Len(sp.str) : IsSpace(sp.str[i]))
               THEN content = instr
               ELSE content = lstrip(sp.str) \o <<NL, NL>> \o instr

\* a third attempt is under way for a call whose system prompt starts with
\* whitespace
C16_Witness ==
    /\ call.pc = "await" /\ Len(call.requests) = 3
    /\ call.config.system_prompt = Str(<<SP, "Be", SP, "brief.">>)
    /\ Len(call.requests[3]) = 6
    /\ call.requests[3][1].content.str[1] = "Be"

(* ------------------------ C19 ------------------------------------------ *)
Min(a, b) == IF a < b THEN a ELSE b
Max(a, b) == IF a > b THEN a ELSE b

\* the attempt that received o ended in the except clause of lines 259-268:
\* the reply failed parsing or validation, or create() raised an exception of
\* one of the two classes
FailedAttempt(o, response_model) ==
    \/ ReplyInvalid(o, response_model)
    \/ o.raises /\ o.exc.type \in {"JSONDecodeError", "ValidationError"}

FailedAttempts(c) ==
    Cardinality({i \in 1..Len(c.replies) : FailedAttempt(c.replies[i], c.response_model)})

\* every message of the conversation has been sent to the service
AllSent(c) == Len(c.requests) >= 1 => c.messages = c.requests[Len(c.requests)]

\* C19 as stated: after k failed attempts the conversation holds exactly
\* 2 + 2*min(k, max_retries-1) messages, so never more than
\* 2 + 2*(max_retries-1), and every appended pair has been sent in a later
\* attempt.
C19_FeedbackCount ==
    call.pc # "idle" =>
        /\ Len(call.messages) = 2 + 2 * Min(FailedAttempts(call), call.max_retries - 1)
        /\ Len(call.messages) <= 2 + 2 * (call.max_retries - 1)
        /\ AllSent(call)

\* C19 as the code has it: the count is 2 + 2*min(k, max(max_retries-1, 0));
\* with max_retries = 0 the two initial messages are built and nothing is sent.
C19_FeedbackCountFromZero ==
    call.pc # "idle" =>
        /\ Len(call.messages) = 2 + 2 * Min(FailedAttempts(call), Max(call.max_retries - 1, 0))
        /\ Len(call.messages) <= 2 + 2 * Max(call.max_retries - 1, 0)
        /\ AllSent(call)
        /\ call.max_retries = 0 => Len(call.messages) = 2 /\ call.requests = <<>>

\* the budget of three is used up: two pairs of feedback, none after the third
\* failure
C19_Witness ==
    /\ call.pc = "done" /\ call.max_retries = 3
    /\ FailedAttempts(call) = 3 /\ Len(call.messages) = 6
    /\ Len(call.requests) = 3 /\ call.requests[3] = call.messages

(* ------------------------ C20 ------------------------------------------ *)
\* the attempt that received o failed otherwise than by a JSON-parse or a
\* schema-validation failure
OtherFailure(o, response_model) ==
    ~ReplyValid(o, response_model) /\ ~FailedAttempt(o, response_model)

\* the call ended at its n-th attempt with RuntimeError, no feedback appended
\* and no further service invocation
EndedAtOnce(c, n) ==
    /\ n = Len(c.replies) /\ c.pc = "done"
    /\ c.outcome.kind = "raise" /\ c.outcome.exc.type = "RuntimeError"
    /\ IsPrefix(<<"API request failed:">>, c.outcome.exc.msg)
    /\ Len(c.requests) = n /\ c.messages = c.requests[n]

Alone(c) ==
    RunCall(generate_structured(c.config, c.user_prompt, c.response_model, c.max_retries),
            c.replies)

\* the conversation is the call's own prompt, then for each feedback pair the
\* call's own reply and an error message
OwnConversation(c) ==
    /\ c.messages[2] = Message("user", Str(c.user_prompt))
    /\ Len(c.messages) % 2 = 0
    /\ \A j \in 1..((Len(c.messages) - 2) \div 2) :
          /\ j <= Len(c.replies)
          /\ c.messages[2 * j + 1] = Message("assistant", c.replies[j].content)
          /\ c.messages[2 * j + 2].role = "user"

\* C17: two generate_structured calls interleaved in any order at their
\* service round trips do not interfere: each call's conversation holds only
\* its own prompt, replies and feedback, and its outcome and number of service
\* invocations are those of the call running alone.
C17_CallsIndependent ==
    \A i \in 1..2 :
        calls[i].pc # "idle" =>
            /\ OwnConversation(calls[i])
            /\ calls[i].messages = Alone(calls[i]).messages
            /\ calls[i].outcome = Alone(calls[i]).outcome
            /\ Len(calls[i].requests) = Len(Alone(calls[i]).requests)
            /\ calls[i].pc = Alone(calls[i]).pc

\* both calls have had a reply rejected and wait for the next one, with
\* different prompts and different replies
C17_Witness ==
    /\ calls[1].pc = "await" /\ calls[2].pc = "await"
    /\ calls[1].user_prompt # calls[2].user_prompt
    /\ calls[1].replies = << Completion(Str(RBadType)) >>
    /\ calls[2].replies = << Completion(Str(RProse)) >>
    /\ Len(calls[1].messages) = 4 /\ Len(calls[2].messages) = 4

(* ------------------------ C18 ------------------------------------------ *)
\* C18: current_model is always a member of ALL_MODELS; set_model with a model
\* outside ALL_MODELS raises ValueError and leaves current_model unchanged;
\* generate_text, quick_chat and vision_chat, with or without a model
\* override, never change current_model.
C18_CurrentModelValid ==
    /\ ~current_model.isNone => InModels(current_model, ALL_MODELS)
    /\ chat_op.op = "set_model" =>
          IF InModels(chat_op.model, ALL_MODELS)
          THEN current_model = chat_op.model /\ chat_op.outcome.kind = "return"
          ELSE /\ chat_op.outcome.kind = "raise"
               /\ chat_op.outcome.exc.type = "ValueError"
               /\ current_model = chat_op.before
    /\ chat_op.op \in {"generate_text", "quick_chat", "vision_chat"} =>
          current_model = chat_op.before

\* after a set_model away from the default, a generate_text with another model
\* as override has returned
C18_Witness ==
    /\ chat_op.op = "generate_text" /\ chat_op.outcome.kind = "return"
    /\ current_model = Str(<<TEXT_MODELS[3]>>)
    /\ chat_op.model = Str(<<TEXT_MODELS[5]>>)

(* ------------------------ C21 ------------------------------------------ *)
\* the entry the loop body appends for a model whose call ended as c
EntryOf(model, c) ==
    IF c.outcome.kind = "return"
    THEN [model |-> model, timestamp |-> "now", data |-> c.outcome.value[1]]
    ELSE [model |-> model, timestamp |-> "now", error |-> c.outcome.exc.msg]

\* the entries of the first k models of the batch, in query order
Entries(k) == [i \in 1..k |-> EntryOf(models[i], queried[i])]

\* the answers the file held before the run
Before == IF file_before.isNone THEN <<>> ELSE file_before.answers

\* the number of models processed so far
Processed == next_model - 1

\* C21: once a model has been processed the file holds the answers it held
\* before the run followed by exactly one entry per model processed so far, in
\* query order, each with 'data' or 'error' and never both; a run cut short
\* while it processes model i leaves the entries of models 1..i-1 in the file.
C21_ProgressIncremental ==
    mpc \notin {"off", "load"} =>
        /\ (Processed >= 1 /\ mpc # "aborted") =>
              /\ json_file = Dict(topic, Before \o Entries(Processed))
              /\ \A j \in 1..Processed :
                    LET e == json_file.answers[Len(Before) + j]
                    IN  ("data" \in DOMAIN e) # ("error" \in DOMAIN e)
        /\ (Processed >= 1 /\ mpc = "aborted") =>
              /\ ~json_file.isNone
              /\ Contains(json_file.answers, Entries(Processed))

(* ------------------------ C22 ------------------------------------------ *)
\* C22: once the last model of the batch has been processed the run ends
\* normally, reporting the saved file and the number of entries that carry
\* 'data', without raising an error, whatever the mix of succeeded and failed
\* models.
C22_RunEndsNormally ==
    mpc \notin {"off", "load", "loop", "summary", "aborted"} => mpc = "exit"

====
